---- MODULE Spec2Model ----
(***************************************************************************)
(* Model of the pymatnest post-analysis pipeline (src/main.py): flag       *)
(* validation, discovery of the prefix and of the trajectory count, the    *)
(* trajectory merge, the three external engines, the shell scan of the     *)
(* RDF curve and the assembly of the data file.                            *)
(*                                                                         *)
(* Python's None is the empty tuple, a value v that is present is <<v>>.   *)
(* Python indices are kept 0-based in the variables; At(s, k) reads s[k].  *)
(***************************************************************************)
EXTENDS Integers, Sequences, FiniteSets, TLC

\* ------------------------------------------------------------- bounds
\* Trajectory sets of the merge specification (SpecMerge).
MaxTraj == 2
MaxLen == 1
MaxIter == 2
\* RDF curves of the shell-scan specification (SpecRdf).
MaxBins == 5
MaxDensity == 1
\* Inputs of the whole-pipeline specification (Spec).
MainTraj == 1
MainLen == 3
MainBins == 3
MainRows == 3
\* Nonzero exit statuses an external engine may return: 1..MaxExit.
MaxExit == 2
\* Tables and energies of the interpolation specification (SpecInterp).
MaxTableRows == 3
MaxTemp == 3
MaxEnergy == 3
MaxConfigs == 2

\* ------------------------------------------------------------ helpers
None == <<>>
Some(x) == <<x>>
Get(o) == o[1]
At(s, k) == s[k + 1]
Range(s) == {s[k] : k \in 1..Len(s)}
SeqsUpTo(S, n) == UNION {[1..m -> S] : m \in 0..n}

VARIABLES
  args,                 \* config.args after parse_args / _validate_flags
  energy_files,         \* how many *.energies files the directory holds
  traj,                 \* traj[i+1]: the file {prefix}.traj.{i}.extxyz
  prefix,               \* config.prefix
  num_of_trajectories,  \* config.num_of_trajectories
  pc,                   \* the next step of main
  i,                    \* loop index of the running loop
  data,                 \* concat_all_traj_by_iteration: data
  struc_store,          \* concat_all_traj_by_iteration: struc_store
  ordered,              \* the file {prefix}.traj.ordered.extxyz
  analyse,              \* whether analyse.dat has been opened for writing
  allrdf,               \* whether the rdf engine has produced allrdf.out
  calls,                \* the subprocess.run invocations, in order
  r,                    \* calculate_rdf: r (radii column)
  value,                \* calculate_rdf: value (density column)
  found,                \* calculate_rdf: found
  index_end_of_first_shell,
  index_start_of_second_shell,
  qw4,                  \* rows of {prefix}_ordered.qw4 (None: no file)
  qw6,                  \* rows of {prefix}_ordered.qw6 (None: no file)
  datafile,             \* rows appended to {prefix}.data (None: not opened)
  exit_status,          \* the process's exit status (None: still running)
  exc,                  \* the uncaught exception, "None" if none
  exit_at,              \* the place that ended the process
  trace,                \* the functions main has entered, in order
  ns_energy,            \* calculate_temperature_...: ns_energy
  T,                    \* calculate_temperature_...: T (analyse.dat column 0)
  U,                    \* calculate_temperature_...: U (analyse.dat column 3)
  temperature           \* calculate_temperature_...: temperature

vars == <<args, energy_files, traj, prefix, num_of_trajectories, pc, i, data,
          struc_store, ordered, analyse, allrdf, calls, r, value, found,
          index_end_of_first_shell, index_start_of_second_shell, qw4, qw6,
          datafile, exit_status, exc, exit_at, trace, ns_energy, T, U,
          temperature>>

configVars == <<args, energy_files, traj, prefix, num_of_trajectories>>
mergeVars == <<data, struc_store, ordered>>
scanVars == <<r, value, found, index_end_of_first_shell,
              index_start_of_second_shell>>
fileVars == <<analyse, allrdf, qw4, qw6, datafile>>
exitVars == <<exit_status, exc, exit_at>>
interpVars == <<ns_energy, T, U, temperature>>

\* ------------------------------------------------------- input domains
\* One configuration: its info['iter'] and where it was read from.
Struc(it, f, p) == [iter |-> it, file |-> f, pos |-> p]

\* What {prefix}.traj.{f}.extxyz may be: absent, present but unparsable,
\* or a sequence of at most maxLen configurations.
TrajFiles(f, maxLen, maxIter) ==
  {[status |-> "missing", strucs |-> <<>>],
   [status |-> "unreadable", strucs |-> <<>>]}
  \cup {[status |-> "ok",
         strucs |-> [p \in 1..Len(its) |-> Struc(its[p], f, p)]] :
          its \in SeqsUpTo(0..maxIter, maxLen)}

\* The walker files of a directory, for indices 0..k-1, k <= maxTraj.
TrajectorySets(maxTraj, maxLen, maxIter) ==
  UNION {{t \in [1..k -> UNION {TrajFiles(f, maxLen, maxIter) : f \in 0..(k - 1)}] :
            \A f \in 1..k : t[f] \in TrajFiles(f - 1, maxLen, maxIter)} :
         k \in 0..maxTraj}

\* A walker file as the simulation writes it: absent, unparsable, or L
\* snapshots taken at iterations 0..L-1, L <= maxLen.
WalkerFiles(f, maxLen) ==
  {[status |-> "missing", strucs |-> <<>>],
   [status |-> "unreadable", strucs |-> <<>>]}
  \cup {[status |-> "ok",
         strucs |-> [p \in 1..L |-> Struc(p - 1, f, p)]] : L \in 0..maxLen}

\* The walker files of a simulation directory, indices 0..k-1, k <= maxTraj.
WalkerSets(maxTraj, maxLen) ==
  UNION {{t \in [1..k -> UNION {WalkerFiles(f, maxLen) : f \in 0..(k - 1)}] :
            \A f \in 1..k : t[f] \in WalkerFiles(f - 1, maxLen)} :
         k \in 0..maxTraj}

\* argparse: --qw --rdf --concat are store_true; -M -n -D --mask1 --mask2
\* --qw_cut default to None; -k has a default.
ParsedArgs ==
  [qw : BOOLEAN, rdf : BOOLEAN, concat : BOOLEAN,
   M : {None, Some("M")}, n : {None, Some("n")}, D : {None, Some("D")},
   k : {Some("k")},
   mask1 : {None, Some("A")}, mask2 : {None, Some("A")},
   qw_cut : {None, Some(2)}]

\* What subprocess.run(..., check=True) may do: return, raise
\* FileNotFoundError (no such executable), or raise CalledProcessError with
\* the engine's nonzero exit status.
Outcomes ==
  {[kind |-> "ok", rc |-> 0], [kind |-> "fnf", rc |-> 0]}
  \cup {[kind |-> "failed", rc |-> c] : c \in 1..MaxExit}

\* ----------------------------------------------------------- main flow
\* main: which step follows, given the flags (lines 420-444).
AfterQw(a) == "write_datafile"
AfterRdf(a) == IF a.qw THEN "calculate_qw" ELSE AfterQw(a)
AfterPartition(a) ==
  IF a.rdf
  THEN IF a.mask1 = None \/ a.mask2 = None
       THEN "determine_atom_type" ELSE "calculate_rdf"
  ELSE AfterRdf(a)
AfterConcat(a) == IF a.M # None THEN "calculate_partition_function"
                               ELSE AfterPartition(a)
AfterReadNum(a) == IF a.concat THEN "concat" ELSE AfterConcat(a)

\* The process ends with status st at place `at`; e is the uncaught
\* exception ("None" for sys.exit / exit / the end of main).
Halt(st, e, at) ==
  /\ pc' = "exited"
  /\ exit_status' = Some(st)
  /\ exc' = e
  /\ exit_at' = at

\* An uncaught exception: traceback, exit status 1.
Crash(e, at) == Halt(1, e, at)

\* ------------------------------------------------------ Config.__init__
\* _validate_flags, first check (lines 73-75).
PartitionFlagsIncomplete(a) ==
  /\ \E flag \in {a.M, a.n, a.D, a.k} : flag # None
  /\ None \in {a.M, a.n, a.D}

\* _validate_flags, second check (lines 81-83).
MaskFlagsIncomplete(a) ==
  /\ \E flag \in {a.mask1, a.mask2} : flag # None
  /\ None \in {a.mask1, a.mask2}

\* _validate_flags, lines 88-96: --qw without --qw_cut turns rdf on, --qw
\* turns concat on.
ForcedFlagsNoConcat(a) ==
  [a EXCEPT !.rdf = IF a.qw /\ a.qw_cut = None THEN TRUE ELSE @]
ForcedFlags(a) ==
  [a EXCEPT !.rdf = IF a.qw /\ a.qw_cut = None THEN TRUE ELSE @,
            !.concat = IF a.qw /\ ~a.concat THEN TRUE ELSE @]

\* Config.__init__: parse_args, then _validate_flags.
ConfigInit ==
  /\ pc = "config"
  /\ \E a \in ParsedArgs :
       IF PartitionFlagsIncomplete(a) \/ MaskFlagsIncomplete(a)
       THEN /\ args' = a
            /\ Halt(1, "None", "_validate_flags")
       ELSE /\ args' = ForcedFlags(a)
            /\ pc' = "read_prefix"
            /\ UNCHANGED exitVars
  /\ trace' = Append(trace, "Config")
  /\ UNCHANGED interpVars
  /\ UNCHANGED <<energy_files, traj, prefix, num_of_trajectories, i, mergeVars,
                 scanVars, fileVars, calls>>

\* Config.read_in_number_of_live_points_and_prefix.
ReadPrefix ==
  /\ pc = "read_prefix"
  /\ trace' = Append(trace, "read_in_number_of_live_points_and_prefix")
  /\ IF energy_files > 1
     THEN Crash("RuntimeError", "read_prefix") /\ UNCHANGED prefix
     ELSE IF energy_files = 0
     THEN Crash("FileNotFoundError", "read_prefix") /\ UNCHANGED prefix
     ELSE /\ prefix' = Some("prefix")
          /\ pc' = "read_num"
          /\ UNCHANGED exitVars
  /\ UNCHANGED interpVars
  /\ UNCHANGED <<args, energy_files, traj, num_of_trajectories, i, mergeVars,
                 scanVars, fileVars, calls>>

\* The indices i for which os.listdir shows {prefix}.traj.{i}.extxyz.
ListedIndices(t) == {f \in 0..(Len(t) - 1) : At(t, f).status # "missing"}

SetMax(S) == CHOOSE x \in S : \A y \in S : y <= x

\* Config.read_in_num_of_trajectories: max index + 1; on no match (max of
\* an empty sequence raises ValueError) the field keeps its None.
DiscoveredCount(t) ==
  IF ListedIndices(t) = {} THEN None ELSE Some(SetMax(ListedIndices(t)) + 1)

ReadNumTraj ==
  /\ pc = "read_num"
  /\ num_of_trajectories' = DiscoveredCount(traj)
  /\ pc' = AfterReadNum(args)
  /\ i' = 0
  /\ trace' = Append(trace, "read_in_num_of_trajectories")
  /\ UNCHANGED interpVars
  /\ UNCHANGED <<args, energy_files, traj, prefix, mergeVars, scanVars,
                 fileVars, calls, exitVars>>

\* ------------------------------------------- concat_all_traj_by_iteration
\* io.read raises when the file is absent or cannot be parsed.
ReadFailsNever(f) == FALSE
ReadFails(f) == f.status # "ok"

\* The indices still to place whose key is the least.
MinKeyed(keys, S) == {x \in S : \A y \in S : keys[x] <= keys[y]}

\* The index arrays that order keys non-decreasingly over the index set S.
RECURSIVE SortedOrders(_, _)
SortedOrders(keys, S) ==
  IF S = {} THEN {<<>>}
  ELSE UNION {{<<x>> \o rest : rest \in SortedOrders(keys, S \ {x})} :
              x \in MinKeyed(keys, S)}

\* np.argsort(data) with its default kind ('quicksort', not stable): some
\* index array that sorts data; which one among equal keys depends on the
\* numpy build and on the array's length.
ArgSorts(keys) == SortedOrders(keys, 1..Len(keys))

\* strucs_sorted = [struc_store[i] for i in sort_ind] (line 225).
ReorderNone(store, ind) == store
ReorderFirst(store, ind) == [k \in 1..Len(ind) |-> store[ind[1]]]
Reorder(store, ind) == [k \in 1..Len(ind) |-> store[ind[k]]]

\* One pass of the loop over range(num_of_trajectories), lines 215-222.
ConcatRead ==
  /\ pc = "concat"
  /\ num_of_trajectories # None
  /\ i < Get(num_of_trajectories)
  /\ IF ReadFails(At(traj, i))
     THEN /\ Crash("FileNotFoundError", "concat_all_traj_by_iteration")
          /\ UNCHANGED <<i, data, struc_store>>
     ELSE /\ data' = data \o [p \in 1..Len(At(traj, i).strucs) |->
                                At(traj, i).strucs[p].iter]
          /\ struc_store' = struc_store \o At(traj, i).strucs
          /\ i' = i + 1
          /\ UNCHANGED <<pc, exitVars>>
  /\ trace' = IF i = 0 THEN Append(trace, "concat_all_traj_by_iteration")
                       ELSE trace
  /\ UNCHANGED interpVars
  /\ UNCHANGED <<configVars, ordered, scanVars, fileVars, calls>>

\* range(None): num_of_trajectories was never set (no trajectory file).
ConcatNoCount ==
  /\ pc = "concat"
  /\ num_of_trajectories = None
  /\ Crash("TypeError", "concat_all_traj_by_iteration")
  /\ trace' = Append(trace, "concat_all_traj_by_iteration")
  /\ UNCHANGED interpVars
  /\ UNCHANGED <<configVars, i, mergeVars, scanVars, fileVars, calls>>

\* Lines 223-226: sort the indices by iteration and write the ordered file.
ConcatSortWrite ==
  /\ pc = "concat"
  /\ num_of_trajectories # None
  /\ i = Get(num_of_trajectories)
  /\ \E sort_ind \in ArgSorts(data) :
       ordered' = Some(Reorder(struc_store, sort_ind))
  /\ data' = <<>>
  /\ struc_store' = <<>>
  /\ pc' = AfterConcat(args)
  /\ UNCHANGED interpVars
  /\ UNCHANGED <<configVars, i, scanVars, fileVars, calls, exitVars, trace>>

\* The state in which main reaches read_in_num_of_trajectories with
\* --concat and the partition-function flags given.
MergeArgs ==
  [qw |-> FALSE, rdf |-> FALSE, concat |-> TRUE,
   M |-> Some("M"), n |-> Some("n"), D |-> Some("D"), k |-> Some("k"),
   mask1 |-> None, mask2 |-> None, qw_cut |-> None]

\* No call has been made and no local holds a value.
BlankLocals ==
  /\ i = 0
  /\ data = <<>>
  /\ struc_store = <<>>
  /\ calls = <<>>
  /\ r = <<>>
  /\ value = <<>>
  /\ found = FALSE
  /\ index_end_of_first_shell = None
  /\ index_start_of_second_shell = None
  /\ exit_status = None
  /\ exc = "None"
  /\ exit_at = "None"
  /\ ns_energy = <<>>
  /\ T = <<>>
  /\ U = <<>>
  /\ temperature = <<>>

\* The directory holds none of the files the pipeline produces.
NoArtifacts ==
  /\ ordered = None
  /\ analyse = FALSE
  /\ allrdf = FALSE
  /\ qw4 = None
  /\ qw6 = None
  /\ datafile = None

Blank == BlankLocals /\ NoArtifacts

\* The configurations of all walker files, in file order.
WalkerStrucs(t) ==
  LET upTo[k \in 0..Len(t)] ==
        IF k = 0 THEN <<>> ELSE upTo[k - 1] \o t[k].strucs
  IN upTo[Len(t)]

\* The directory as an earlier complete run with --concat and --qw over
\* the same walker files left it: clean_up removes only the two .idx
\* files, so the ordered trajectory, analyse.dat and the qw4/qw6 tables
\* (one row per configuration) are still there. {prefix}.data of the
\* earlier run is not modelled: datafile holds the rows of this run.
StaleArtifacts ==
  LET strucs == WalkerStrucs(traj)
      iters == [p \in 1..Len(strucs) |-> strucs[p].iter]
      sort_ind == CHOOSE ind \in ArgSorts(iters) :
                    \A a, b \in 1..Len(ind) : a < b => ind[a] < ind[b]
                                                 \/ iters[ind[a]] < iters[ind[b]]
  IN /\ Len(strucs) > 0
     /\ \A f \in 1..Len(traj) : ~ReadFails(traj[f])
     /\ ordered = Some(Reorder(strucs, sort_ind))
     /\ analyse = TRUE
     /\ allrdf = FALSE
     /\ qw4 = Some(Len(strucs))
     /\ qw6 = Some(Len(strucs))
     /\ datafile = None

InitMerge ==
  /\ Blank
  /\ args = MergeArgs
  /\ energy_files = 1
  /\ traj \in TrajectorySets(MaxTraj, MaxLen, MaxIter)
  /\ prefix = Some("prefix")
  /\ num_of_trajectories = None
  /\ pc = "read_num"
  /\ trace = <<"Config", "read_in_number_of_live_points_and_prefix">>

NextMerge == ReadNumTraj \/ ConcatRead \/ ConcatNoCount \/ ConcatSortWrite

SpecMerge == InitMerge /\ [][NextMerge]_vars

\* ------------------------------------------ calculate_partition_function
\* The argument list both invocations are given (lines 183-184, 188-189).
NsAnalyseArgv(a, pfx) ==
  <<<<Get(pfx), ".energies">>, "-M", Get(a.M), "-n", Get(a.n),
    "-D", Get(a.D), "-k", Get(a.k)>>

Invocation(cmd, argv, out, o) ==
  [cmd |-> cmd, argv |-> argv, stdout |-> out, outcome |-> o]

\* except FileNotFoundError (line 185): the only outcome that leads to the
\* invocation of './ns_analyse'.
FallsBackOnAnyError(o) == o.kind # "ok"
FallsBack(o) == o.kind = "fnf"

\* The whole of calculate_partition_function. A CalledProcessError of the
\* first invocation is caught (line 190) and becomes exit(returncode); an
\* exception raised inside the FileNotFoundError handler is caught by no
\* clause of the same try statement and leaves the process as a traceback.
CalculatePartitionFunction ==
  /\ pc = "calculate_partition_function"
  /\ analyse' = TRUE
  /\ trace' = Append(trace, "calculate_partition_function")
  /\ \E o1 \in Outcomes :
       LET first == Invocation("ns_analyse", NsAnalyseArgv(args, prefix),
                               "analyse.dat", o1)
       IN IF FallsBack(o1)
          THEN \E o2 \in Outcomes :
                 /\ calls' = calls \o
                      <<first,
                        Invocation("./ns_analyse", NsAnalyseArgv(args, prefix),
                                   "analyse.dat", o2)>>
                 /\ IF o2.kind = "ok"
                    THEN pc' = AfterPartition(args) /\ UNCHANGED exitVars
                    ELSE IF o2.kind = "failed"
                    THEN Crash("CalledProcessError",
                               "calculate_partition_function")
                    ELSE Crash("FileNotFoundError",
                               "calculate_partition_function")
          ELSE /\ calls' = Append(calls, first)
               /\ IF o1.kind = "ok"
                  THEN pc' = AfterPartition(args) /\ UNCHANGED exitVars
                  ELSE Halt(o1.rc, "None", "calculate_partition_function")
  /\ UNCHANGED interpVars
  /\ UNCHANGED <<configVars, i, mergeVars, scanVars, allrdf, qw4, qw6,
                 datafile>>

\* ------------------------------------------------------------ the RDF
\* io.read(f'{prefix}.traj.{num_of_trajectories - 1}.extxyz', index='-1')
\* returns a configuration (lines 160, 248).
LastConfigReadable ==
  /\ num_of_trajectories # None
  /\ At(traj, Get(num_of_trajectories) - 1).status = "ok"
  /\ Len(At(traj, Get(num_of_trajectories) - 1).strucs) > 0

\* Config.determine_atom_type.
DetermineAtomType ==
  /\ pc = "determine_atom_type"
  /\ trace' = Append(trace, "determine_atom_type")
  /\ IF LastConfigReadable
     THEN /\ args' = [args EXCEPT !.mask1 = Some("A"), !.mask2 = Some("A")]
          /\ pc' = "calculate_rdf"
          /\ UNCHANGED exitVars
     ELSE /\ Crash(IF num_of_trajectories = None THEN "TypeError"
                                                 ELSE "ReadError",
                   "determine_atom_type")
          /\ UNCHANGED args
  /\ UNCHANGED interpVars
  /\ UNCHANGED <<energy_files, traj, prefix, num_of_trajectories, i, mergeVars,
                 scanVars, fileVars, calls>>

\* calculate_rdf, lines 248-271: write the last configuration, run the rdf
\* engine, and go on to the shell scan only for --qw without a cutoff.
CalculateRdf ==
  /\ pc = "calculate_rdf"
  /\ trace' = Append(trace, "calculate_rdf")
  /\ IF ~LastConfigReadable
     THEN /\ Crash(IF num_of_trajectories = None THEN "TypeError"
                                                 ELSE "ReadError",
                   "calculate_rdf")
          /\ UNCHANGED <<calls, allrdf>>
     ELSE \E o \in Outcomes :
            /\ calls' = Append(calls,
                 Invocation("rdf", <<Get(args.mask1), Get(args.mask2)>>,
                            "DEVNULL", o))
            /\ IF o.kind = "ok"
               THEN /\ allrdf' = TRUE
                    /\ pc' = IF args.qw /\ args.qw_cut = None
                             THEN "rdf_load" ELSE AfterRdf(args)
                    /\ UNCHANGED exitVars
               ELSE /\ UNCHANGED allrdf
                    /\ IF o.kind = "failed"
                       THEN Halt(o.rc, "None", "calculate_rdf")
                       ELSE Crash("FileNotFoundError", "calculate_rdf")
  /\ UNCHANGED interpVars
  /\ UNCHANGED <<configVars, i, mergeVars, scanVars, analyse, qw4, qw6,
                 datafile>>

\* The density columns allrdf.out may hold: at least two bins, each
\* density an exact 0 or a nonzero value.
Curves(maxBins, maxDensity) ==
  UNION {[1..m -> 0..maxDensity] : m \in 2..maxBins}

\* The radius column: bin centres, in units of half a bin width.
Radii(m) == [k \in 1..m |-> 2 * k - 1]

\* Lines 272-276: load the table and start the scan at i = 1.
RdfLoad ==
  /\ pc = "rdf_load"
  /\ \E c \in Curves(MainBins, MaxDensity) :
       /\ value' = c
       /\ r' = Radii(Len(c))
  /\ found' = FALSE
  /\ index_end_of_first_shell' = None
  /\ index_start_of_second_shell' = None
  /\ i' = 1
  /\ pc' = "scan"
  /\ UNCHANGED interpVars
  /\ UNCHANGED <<configVars, mergeVars, fileVars, calls, exitVars, trace>>

\* Line 279: value[i] == 0 and value[i - 1] != 0.
IsZeroBin(v, k) == At(v, k) = 0
IsEndOfFirstShell(v, k) == At(v, k) = 0 /\ At(v, k - 1) # 0

\* One pass of the loop over range(1, len(r)), lines 278-284.
ScanStep ==
  /\ pc = "scan"
  /\ i < Len(r)
  /\ LET isEnd == IsEndOfFirstShell(value, i)
         found1 == found \/ isEnd
     IN /\ found' = found1
        /\ index_end_of_first_shell' =
             IF isEnd THEN Some(i) ELSE index_end_of_first_shell
        /\ IF found1 /\ At(value, i) # 0
           THEN /\ index_start_of_second_shell' = Some(i)
                /\ pc' = "scan_done"
                /\ UNCHANGED i
           ELSE /\ i' = i + 1
                /\ UNCHANGED <<index_start_of_second_shell, pc>>
  /\ UNCHANGED interpVars
  /\ UNCHANGED <<configVars, mergeVars, r, value, fileVars, calls, exitVars,
                 trace>>

\* The loop runs out of bins without reaching the break.
ScanEnd ==
  /\ pc = "scan"
  /\ i >= Len(r)
  /\ pc' = "scan_done"
  /\ UNCHANGED interpVars
  /\ UNCHANGED <<configVars, i, mergeVars, scanVars, fileVars, calls,
                 exitVars, trace>>

\* Lines 287-289: a boundary is missing; exit() is called with no argument,
\* which ends the process with status 0.
ShellAbort ==
  /\ pc = "scan_done"
  /\ index_end_of_first_shell = None \/ index_start_of_second_shell = None
  /\ Halt(0, "None", "shell_detection")
  /\ UNCHANGED interpVars
  /\ UNCHANGED <<configVars, i, mergeVars, scanVars, fileVars, calls, trace>>

\* Python's round() of twice/2: to the nearest integer, a tie to the even
\* one.
PyRoundHalf(twice) ==
  IF twice % 2 = 0 THEN twice \div 2
  ELSE IF (twice \div 2) % 2 = 0 THEN twice \div 2 ELSE (twice \div 2) + 1

\* Lines 292-293: round(((start - end) / 2) + end).
MidIndexFloor(end, start) == ((start - end) + 2 * end) \div 2
MidIndex(end, start) == PyRoundHalf((start - end) + 2 * end)

\* Lines 291-296: the cutoff is the radius at the midpoint index.
ShellCutoff ==
  /\ pc = "scan_done"
  /\ index_end_of_first_shell # None
  /\ index_start_of_second_shell # None
  /\ args' = [args EXCEPT !.qw_cut =
       Some(At(r, MidIndex(Get(index_end_of_first_shell),
                           Get(index_start_of_second_shell))))]
  /\ pc' = AfterRdf(args)
  /\ UNCHANGED interpVars
  /\ UNCHANGED <<energy_files, traj, prefix, num_of_trajectories, i, mergeVars,
                 scanVars, fileVars, calls, exitVars, trace>>

\* -------------------------------------------------------- calculate_qw
QwInvocation(l, o) ==
  Invocation("get_qw", <<"ordered", args.qw_cut, l>>, <<"qw", l>>, o)

\* The whole of calculate_qw: get_qw for l=4, then for l=6. Each output
\* file is opened for writing before its engine runs; an engine that
\* succeeds leaves at least one row. exit(returncode) on a
\* CalledProcessError; a FileNotFoundError is not caught. The locals of
\* calculate_rdf, which has returned, are gone.
CalculateQw ==
  /\ pc = "calculate_qw"
  /\ trace' = Append(trace, "calculate_qw")
  /\ i' = 0
  /\ r' = <<>>
  /\ value' = <<>>
  /\ found' = FALSE
  /\ index_end_of_first_shell' = None
  /\ index_start_of_second_shell' = None
  /\ \E o4 \in Outcomes :
       IF o4.kind = "ok"
       THEN \E n4 \in 1..MainRows, o6 \in Outcomes :
              /\ qw4' = Some(n4)
              /\ calls' = calls \o <<QwInvocation(4, o4), QwInvocation(6, o6)>>
              /\ IF o6.kind = "ok"
                 THEN /\ \E n6 \in 1..MainRows : qw6' = Some(n6)
                      /\ pc' = AfterQw(args)
                      /\ UNCHANGED exitVars
                 ELSE /\ qw6' = Some(0)
                      /\ IF o6.kind = "failed"
                         THEN Halt(o6.rc, "None", "calculate_qw")
                         ELSE Crash("FileNotFoundError", "calculate_qw")
       ELSE /\ qw4' = Some(0)
            /\ UNCHANGED qw6
            /\ calls' = Append(calls, QwInvocation(4, o4))
            /\ IF o4.kind = "failed"
               THEN Halt(o4.rc, "None", "calculate_qw")
               ELSE Crash("FileNotFoundError", "calculate_qw")
  /\ UNCHANGED interpVars
  /\ UNCHANGED <<configVars, mergeVars, analyse, allrdf, datafile>>

\* ------------------------------------------------------ write_datafile
Min(a, b) == IF a <= b THEN a ELSE b

\* np.loadtxt(..., unpack=True) of a table with a single row yields two
\* scalars: they have no len() and cannot be indexed.
Indexable(n) == IF n = 1 THEN 0 ELSE n

\* How many passes of the loop over range(len(q4)) complete: pass k needs
\* ns_iter[k], ns_temp[k] (one per merged configuration) and q6[k].
RowsWritten(nTraj, n4, n6) == Min(n4, Min(nTraj, Indexable(n6)))

\* The row written for 0-based index k (line 401).
Row(k) == [iter |-> At(Get(ordered), k).iter, index |-> k]

\* The whole of write_datafile: no length is compared before writing.
WriteDatafile ==
  /\ pc = "write_datafile"
  /\ trace' = Append(trace, "write_datafile")
  /\ IF ordered = None \/ ~analyse \/ qw4 = None \/ qw6 = None
     THEN /\ Crash("FileNotFoundError", "write_datafile")
          /\ UNCHANGED datafile
     ELSE IF Get(qw4) = 1
     THEN /\ datafile' = Some(<<>>)
          /\ Crash("TypeError", "write_datafile")
     ELSE LET nTraj == Len(Get(ordered))
              done == RowsWritten(nTraj, Get(qw4), Get(qw6))
          IN /\ datafile' = Some([k \in 1..done |-> Row(k - 1)])
             /\ IF done < Get(qw4)
                THEN Crash("IndexError", "write_datafile")
                ELSE pc' = "clean_up" /\ UNCHANGED exitVars
  /\ UNCHANGED interpVars
  /\ UNCHANGED <<configVars, i, mergeVars, scanVars, analyse, allrdf, qw4,
                 qw6, calls>>

\* clean_up, then the end of main: exit status 0.
CleanUp ==
  /\ pc = "clean_up"
  /\ trace' = Append(trace, "clean_up")
  /\ Halt(0, "None", "main")
  /\ UNCHANGED interpVars
  /\ UNCHANGED <<configVars, i, mergeVars, scanVars, fileVars, calls>>

\* ------------------------------------------------------ specifications
\* The whole of main, from the command line on, in a directory that holds
\* the simulation's output and either nothing else or what an earlier run
\* of main left behind.
Init ==
  /\ BlankLocals
  /\ args = None
  /\ energy_files \in 0..2
  /\ traj \in WalkerSets(MainTraj, MainLen)
  /\ NoArtifacts \/ StaleArtifacts
  /\ prefix = None
  /\ num_of_trajectories = None
  /\ pc = "config"
  /\ trace = <<>>

Next ==
  \/ ConfigInit
  \/ ReadPrefix
  \/ ReadNumTraj
  \/ ConcatRead
  \/ ConcatNoCount
  \/ ConcatSortWrite
  \/ CalculatePartitionFunction
  \/ DetermineAtomType
  \/ CalculateRdf
  \/ RdfLoad
  \/ ScanStep
  \/ ScanEnd
  \/ ShellAbort
  \/ ShellCutoff
  \/ CalculateQw
  \/ WriteDatafile
  \/ CleanUp

Spec == Init /\ [][Next]_vars

\* The flags Config.__init__ lets through.
ValidArgs ==
  {ForcedFlags(a) : a \in {b \in ParsedArgs :
      ~PartitionFlagsIncomplete(b) /\ ~MaskFlagsIncomplete(b)}}

\* calculate_partition_function alone, entered by main without --concat.
InitPartition ==
  /\ Blank
  /\ args \in {a \in ValidArgs : ~a.concat}
  /\ energy_files = 1
  /\ traj \in WalkerSets(MainTraj, MainLen)
  /\ prefix = Some("prefix")
  /\ num_of_trajectories = DiscoveredCount(traj)
  /\ pc = "calculate_partition_function"
  /\ trace = <<"Config", "read_in_number_of_live_points_and_prefix",
               "read_in_num_of_trajectories">>

SpecPartition == InitPartition /\ [][CalculatePartitionFunction]_vars

\* The shell scan alone: calculate_rdf has loaded allrdf.out in a run with
\* --qw and no --qw_cut.
ScanArgs ==
  [qw |-> TRUE, rdf |-> TRUE, concat |-> TRUE,
   M |-> Some("M"), n |-> Some("n"), D |-> Some("D"), k |-> Some("k"),
   mask1 |-> Some("A"), mask2 |-> Some("A"), qw_cut |-> None]

InitRdf ==
  /\ args = ScanArgs
  /\ energy_files = 1
  /\ traj = <<[status |-> "ok", strucs |-> <<Struc(0, 0, 1)>>]>>
  /\ prefix = Some("prefix")
  /\ num_of_trajectories = Some(1)
  /\ pc = "scan"
  /\ i = 1
  /\ data = <<>>
  /\ struc_store = <<>>
  /\ ordered = Some(<<Struc(0, 0, 1)>>)
  /\ analyse = TRUE
  /\ allrdf = TRUE
  /\ calls = <<Invocation("ns_analyse", NsAnalyseArgv(ScanArgs, Some("prefix")),
                          "analyse.dat", [kind |-> "ok", rc |-> 0]),
               Invocation("rdf", <<"A", "A">>, "DEVNULL",
                          [kind |-> "ok", rc |-> 0])>>
  /\ value \in Curves(MaxBins, MaxDensity)
  /\ r = Radii(Len(value))
  /\ found = FALSE
  /\ index_end_of_first_shell = None
  /\ index_start_of_second_shell = None
  /\ qw4 = None
  /\ qw6 = None
  /\ datafile = None
  /\ exit_status = None
  /\ exc = "None"
  /\ exit_at = "None"
  /\ ns_energy = <<>>
  /\ T = <<>>
  /\ U = <<>>
  /\ temperature = <<>>
  /\ trace = <<"Config", "read_in_number_of_live_points_and_prefix",
               "read_in_num_of_trajectories", "concat_all_traj_by_iteration",
               "calculate_partition_function", "calculate_rdf">>

NextRdf == ScanStep \/ ScanEnd \/ ShellAbort \/ ShellCutoff

SpecRdf == InitRdf /\ [][NextRdf]_vars

\* ------------------------- calculate_temperature_of_each_configuration
\* A rational number num/den, den > 0.
Rational(num, den) == [num |-> num, den |-> den]

\* np.searchsorted(xs, x): how many of the sorted xs lie below x.
SearchSorted(xs, x) == Cardinality({k \in 1..Len(xs) : xs[k] < x})

Clip(v, lo, hi) == IF v < lo THEN lo ELSE IF v > hi THEN hi ELSE v

\* scipy's interp1d(x, y, fill_value='extrapolate') called at xNew: the
\* points are ordered by x; the segment is the one whose upper point is the
\* first with x >= xNew, the first segment below the range and the last one
\* above it; the value is slope * (xNew - x_lo) + y_lo, in exact arithmetic.
Interp1d(x, y, xNew) ==
  LET ind == CHOOSE p \in ArgSorts(x) : TRUE
      xs == Reorder(x, ind)
      ys == Reorder(y, ind)
      hi == Clip(SearchSorted(xs, xNew), 1, Len(xs) - 1)
      lo == hi - 1
  IN Rational((At(ys, hi) - At(ys, lo)) * (xNew - At(xs, lo))
                + At(ys, lo) * (At(xs, hi) - At(xs, lo)),
              At(xs, hi) - At(xs, lo))

\* Line 371: f = interp1d(U, T, fill_value='extrapolate'), then f(energy).
TemperatureOfSwapped(tT, tU, energy) == Interp1d(tT, tU, energy)
TemperatureOf(tT, tU, energy) == Interp1d(tU, tT, energy)

\* Lines 371-376: the interpolant applied to every configuration's
\* ns_energy, in the order of the ordered trajectory.
InterpolateTemperatures ==
  /\ pc = "interpolate"
  /\ temperature' = [c \in 1..Len(Get(ordered)) |->
                       TemperatureOf(T, U, ns_energy[c])]
  /\ pc' = "assemble"
  /\ UNCHANGED <<configVars, i, mergeVars, scanVars, fileVars, calls,
                 exitVars, trace, ns_energy, T, U>>

\* The temperature column ns_analyse writes: strictly increasing.
TemperatureColumns(m, maxTemp) ==
  {t \in [1..m -> 0..maxTemp] : \A a, b \in 1..m : a < b => t[a] < t[b]}

\* The energy column: one distinct energy per temperature.
EnergyColumns(m, maxEnergy) ==
  {u \in [1..m -> 0..maxEnergy] : \A a, b \in 1..m : a # b => u[a] # u[b]}

\* What lines 365-369 may have loaded: a table of at least two rows and
\* the ns_energy of each configuration of the ordered trajectory.
LoadedInputs ==
  {[T |-> t, U |-> u, ns_energy |-> e] :
     t \in UNION {TemperatureColumns(m, MaxTemp) : m \in 2..MaxTableRows},
     u \in UNION {EnergyColumns(m, MaxEnergy) : m \in 2..MaxTableRows},
     e \in SeqsUpTo(0..MaxEnergy, MaxConfigs)}

\* The table [(T=100, E=0), (T=200, E=10)] read at energies 5 and 15.
ExampleInputs ==
  [T |-> <<100, 200>>, U |-> <<0, 10>>, ns_energy |-> <<5, 15>>]

\* calculate_temperature_of_each_configuration alone, after its inputs
\* are loaded, in a run with --concat.
InitInterp ==
  /\ \E in \in {l \in LoadedInputs : Len(l.T) = Len(l.U)} \cup {ExampleInputs} :
       /\ T = in.T
       /\ U = in.U
       /\ ns_energy = in.ns_energy
       /\ ordered = Some([p \in 1..Len(in.ns_energy) |-> Struc(p - 1, 0, p)])
       /\ traj = <<[status |-> "ok",
                    strucs |-> [p \in 1..Len(in.ns_energy) |->
                                  Struc(p - 1, 0, p)]]>>
  /\ temperature = <<>>
  /\ args = MergeArgs
  /\ energy_files = 1
  /\ prefix = Some("prefix")
  /\ num_of_trajectories = Some(1)
  /\ pc = "interpolate"
  /\ i = 1
  /\ data = <<>>
  /\ struc_store = <<>>
  /\ analyse = TRUE
  /\ allrdf = FALSE
  /\ calls = <<Invocation("ns_analyse", NsAnalyseArgv(MergeArgs, Some("prefix")),
                          "analyse.dat", [kind |-> "ok", rc |-> 0])>>
  /\ r = <<>>
  /\ value = <<>>
  /\ found = FALSE
  /\ index_end_of_first_shell = None
  /\ index_start_of_second_shell = None
  /\ qw4 = None
  /\ qw6 = None
  /\ datafile = None
  /\ exit_status = None
  /\ exc = "None"
  /\ exit_at = "None"
  /\ trace = <<"Config", "read_in_number_of_live_points_and_prefix",
               "read_in_num_of_trajectories", "concat_all_traj_by_iteration",
               "calculate_partition_function", "write_datafile",
               "calculate_temperature_of_each_configuration">>

SpecInterp == InitInterp /\ [][InterpolateTemperatures]_vars

\* --------------------------------------------------- claims on the merge
\* The configurations of files 0..n-1 in reading order: file 0 first, each
\* file in its own order.
RECURSIVE InputsUpTo(_, _)
InputsUpTo(t, n) ==
  IF n = 0 THEN <<>> ELSE InputsUpTo(t, n - 1) \o t[n].strucs

InputSeq == InputsUpTo(traj, Len(traj))

\* Where a configuration stands in the concatenated input.
InputPos(x) == CHOOSE p \in 1..Len(InputSeq) : InputSeq[p] = x

MergeWritten == ordered # None

\* C1: the sequence written to the ordered-trajectory file has
\* non-decreasing iter values: iter[a] <= iter[b] for all positions a < b.
C1_MergedNonDecreasing ==
  MergeWritten =>
    \A a, b \in 1..Len(Get(ordered)) :
      a < b => Get(ordered)[a].iter <= Get(ordered)[b].iter

\* C1 witness: an ordered file written from inputs that were out of order.
C1_Witness ==
  /\ MergeWritten
  /\ \E a, b \in 1..Len(InputSeq) :
       a < b /\ InputSeq[a].iter > InputSeq[b].iter

\* C2 (as claimed): any two configurations with equal iter stand in the
\* merged output in the order they have in the concatenated input.
C2_MergeStable ==
  MergeWritten =>
    \A a, b \in 1..Len(Get(ordered)) :
      (a < b /\ Get(ordered)[a].iter = Get(ordered)[b].iter)
        => InputPos(Get(ordered)[a]) < InputPos(Get(ordered)[b])

\* C3: the merged sequence is a permutation of the concatenated inputs:
\* its length is the sum of the files' lengths and every input
\* configuration occurs in it exactly once.
C3_MergeComplete ==
  MergeWritten =>
    /\ Len(Get(ordered)) = Len(InputSeq)
    /\ \A p \in 1..Len(InputSeq) :
         Cardinality({q \in 1..Len(Get(ordered)) :
                        Get(ordered)[q] = InputSeq[p]}) = 1

\* C3 witness: a merge of two non-empty files that had to be reordered.
C3_Witness ==
  /\ MergeWritten
  /\ Len(traj) >= 2
  /\ \A f \in 1..2 : Len(traj[f].strucs) >= 1
  /\ Get(ordered) # InputSeq

\* The trajectory indices in range that cannot be read.
BadIndices ==
  IF num_of_trajectories = None THEN {}
  ELSE {f \in 0..(Get(num_of_trajectories) - 1) : At(traj, f).status # "ok"}

FirstBad == CHOOSE f \in BadIndices : \A g \in BadIndices : f <= g

\* C10: with num_of_trajectories = n, when the file of some index in
\* [0, n) is missing or unreadable the merge reads no further than the
\* first such index, ends there with an uncaught error, and the ordered
\* file is never written.
C10_MissingFileFailsMerge ==
  (BadIndices # {}) =>
    /\ ordered = None
    /\ i <= FirstBad
    /\ pc # "concat" =>
         /\ pc = "exited"
         /\ exc # "None"
         /\ exit_at = "concat_all_traj_by_iteration"
         /\ i = FirstBad

\* C10 witness: the merge has failed at an index after reading file 0.
C10_Witness ==
  /\ BadIndices # {}
  /\ pc = "exited"
  /\ FirstBad > 0
  /\ Len(At(traj, 0).strucs) > 0

\* ---------------------------------------------- claims on the shell scan
ShellEnd == Get(index_end_of_first_shell)
ShellStart == Get(index_start_of_second_shell)
CutoffSet == args.qw_cut # None

\* C4 (as claimed): the cutoff is the radius at index
\* end + round((start - end) / 2).
C4_CutoffAtEndPlusRoundedHalf ==
  CutoffSet =>
    Get(args.qw_cut) = At(r, ShellEnd + PyRoundHalf(ShellStart - ShellEnd))

\* C4 (amended): the cutoff is the radius tabulated at the index nearest to
\* the midpoint (end + start) / 2 of the two boundaries, a tie going to the
\* even index; that index is end + round((start - end) / 2) whenever end is
\* even or start - end is even. The radius is a tabulated one.
C4_CutoffAtRoundedMidpoint ==
  CutoffSet =>
    \E idx \in ShellEnd..ShellStart :
      /\ Get(args.qw_cut) = At(r, idx)
      /\ 2 * idx - (ShellEnd + ShellStart) \in {-1, 0, 1}
      /\ (ShellEnd + ShellStart) % 2 = 1 => idx % 2 = 0
      /\ (ShellEnd % 2 = 0 \/ (ShellStart - ShellEnd) % 2 = 0)
           => idx = ShellEnd + PyRoundHalf(ShellStart - ShellEnd)

\* C4 witness: a cutoff derived from boundaries an odd distance apart with
\* an odd end index, where the two roundings part.
C4_Witness ==
  /\ CutoffSet
  /\ ShellEnd % 2 = 1
  /\ (ShellStart - ShellEnd) % 2 = 1

\* The indices k >= 1 whose density is exactly 0 after a nonzero one.
ZeroCrossings == {k \in 1..(Len(value) - 1) :
                    At(value, k) = 0 /\ At(value, k - 1) # 0}

\* The indices after e whose density is nonzero.
NonzeroAfter(e) == {k \in (e + 1)..(Len(value) - 1) : At(value, k) # 0}

SetMin(S) == CHOOSE x \in S : \A y \in S : x <= y

\* C5: whenever the scan holds an end-of-first-shell index it is the
\* smallest index i >= 1 with density[i] = 0 and density[i-1] # 0 (so a
\* later zero-crossing never replaces it); a start-of-second-shell index is
\* the smallest later index with nonzero density; and when the scan has
\* stopped a boundary is missing only if the curve has none.
C5_ShellScanFindsFirstBoundaries ==
  /\ index_end_of_first_shell # None =>
       ZeroCrossings # {} /\ ShellEnd = SetMin(ZeroCrossings)
  /\ index_start_of_second_shell # None =>
       /\ index_end_of_first_shell # None
       /\ ShellStart = SetMin(NonzeroAfter(ShellEnd))
  /\ pc # "scan" =>
       /\ index_end_of_first_shell = None <=> ZeroCrossings = {}
       /\ index_end_of_first_shell # None =>
            (index_start_of_second_shell = None
               <=> NonzeroAfter(ShellEnd) = {})

\* C5 witness: the scan has stopped with both boundaries on a curve that
\* has another zero-crossing further out.
C5_Witness ==
  /\ pc = "scan_done"
  /\ index_end_of_first_shell # None
  /\ index_start_of_second_shell # None
  /\ \E k \in ZeroCrossings : k > ShellStart

\* ------------------------------------------------ claims on the pipeline
Entered(f) == f \in Range(trace)
Invoked(cmd) == \E c \in 1..Len(calls) : calls[c].cmd = cmd

\* C6 (as claimed): when shell detection fails the process ends with a
\* non-zero exit status, qw_cut stays unassigned, and neither get_qw nor
\* write_datafile runs.
C6_ShellFailureIsHardStop ==
  exit_at = "shell_detection" =>
    /\ exit_status # None
    /\ Get(exit_status) # 0
    /\ args.qw_cut = None
    /\ ~Invoked("get_qw")
    /\ ~Entered("calculate_qw")
    /\ ~Entered("write_datafile")

\* write_datafile has run on four sources that all exist.
Assembled ==
  /\ Entered("write_datafile")
  /\ ordered # None
  /\ qw4 # None
  /\ qw6 # None

\* C7 (as claimed): when the merged trajectory (and with it the
\* temperatures), the q4/w4 table and the q6/w6 table differ in length,
\* write_datafile fails with a fatal error and appends no row.
C7_AssemblerChecksLengths ==
  (Assembled /\ Cardinality({Len(Get(ordered)), Get(qw4), Get(qw6)}) > 1) =>
    /\ pc = "exited"
    /\ exc # "None"
    /\ datafile = None \/ Get(datafile) = <<>>

\* C8 (as claimed): an engine invocation that returns a nonzero status is
\* the last thing the run does, and the process exits with that status.
C8_EngineFailurePropagates ==
  \A c \in 1..Len(calls) :
    calls[c].outcome.kind = "failed" =>
      /\ c = Len(calls)
      /\ pc = "exited"
      /\ exit_status = Some(calls[c].outcome.rc)
      /\ ~Entered("write_datafile")

\* --------------------------------- claims on calculate_partition_function
IsNsAnalyse(c) == c.cmd \in {"ns_analyse", "./ns_analyse"}
NsCalls == SelectSeq(calls, IsNsAnalyse)

\* The argument list the tests expect, for prefix "prefix".
ExpectedArgv ==
  <<<<"prefix", ".energies">>, "-M", "M", "-n", "n", "-D", "D", "-k", "k">>

\* C9: calculate_partition_function first invokes ns_analyse with
\* (prefix.energies, -M, -n, -D, -k) and output to analyse.dat; it invokes
\* ./ns_analyse, second and with the same arguments, if and only if the
\* first invocation raised FileNotFoundError; a first invocation that
\* succeeds is the only one.
C9_FallbackOnlyAfterMissingPrimary ==
  /\ pc = "calculate_partition_function" => NsCalls = <<>>
  /\ pc # "calculate_partition_function" =>
       /\ Len(NsCalls) \in {1, 2}
       /\ NsCalls[1].cmd = "ns_analyse"
       /\ NsCalls[1].argv = ExpectedArgv
       /\ NsCalls[1].stdout = "analyse.dat"
       /\ NsCalls[1].outcome.kind = "ok" => Len(NsCalls) = 1
       /\ Len(NsCalls) = 2 <=> NsCalls[1].outcome.kind = "fnf"
       /\ Len(NsCalls) = 2 =>
            /\ NsCalls[2].cmd = "./ns_analyse"
            /\ NsCalls[2].argv = NsCalls[1].argv
            /\ NsCalls[2].stdout = "analyse.dat"

\* C9 witness: the fallback has run after a missing primary and succeeded.
C9_Witness ==
  /\ Len(NsCalls) = 2
  /\ NsCalls[1].outcome.kind = "fnf"
  /\ NsCalls[2].outcome.kind = "ok"
  /\ pc # "exited"

\* ------------------------------------------- claims on the interpolation
Interpolated == pc = "assemble"

\* The rows of the table, and those next to each other in energy.
TableRows == 1..Len(U)
Adjacent(a, b) ==
  /\ U[a] < U[b]
  /\ ~\E c \in TableRows : U[a] < U[c] /\ U[c] < U[b]

\* The value q lies on the line through rows a and b at the given energy.
OnLine(q, a, b, energy) ==
  q.num * (U[b] - U[a]) =
    q.den * (T[a] * (U[b] - U[a]) + (T[b] - T[a]) * (energy - U[a]))

FirstEntry(f) ==
  IF Entered(f) THEN CHOOSE k \in 1..Len(trace) :
                       trace[k] = f /\ \A j \in 1..(k - 1) : trace[j] # f
                ELSE 0
EnteredBefore(f, g) == Entered(f) /\ Entered(g) /\ FirstEntry(f) < FirstEntry(g)

\* An invocation of cmd that returned with status 0.
Succeeded(c) == c.outcome.kind = "ok"
Produced(cmds, argv3) ==
  \E c \in 1..Len(calls) :
    /\ calls[c].cmd \in cmds
    /\ Succeeded(calls[c])
    /\ argv3 # None => calls[c].argv[3] = Get(argv3)

\* write_datafile has got past its reads of the ordered trajectory,
\* analyse.dat and the qw4/qw6 tables: it did not stop on a missing file.
ArtifactsRead ==
  /\ Entered("write_datafile")
  /\ ~(exit_at = "write_datafile" /\ exc = "FileNotFoundError")

\* C12 (as claimed): in every run, whatever accepted flags it was given,
\* when write_datafile (and the temperature mapping inside it) has read
\* the ordered trajectory, analyse.dat and the qw4/qw6 tables, then
\* earlier in this run the merge ran to its end, ns_analyse succeeded and
\* get_qw succeeded for l=4 and for l=6.
C12_ArtifactsProducedInSameRun ==
  ArtifactsRead =>
    /\ EnteredBefore("concat_all_traj_by_iteration", "write_datafile")
    /\ EnteredBefore("calculate_partition_function", "write_datafile")
    /\ Produced({"ns_analyse", "./ns_analyse"}, None)
    /\ EnteredBefore("calculate_qw", "write_datafile")
    /\ Produced({"get_qw"}, Some(4))
    /\ Produced({"get_qw"}, Some(6))

\* The invocations of get_qw.
QwCalls == {c \in 1..Len(calls) : calls[c].cmd = "get_qw"}

\* C13: whenever get_qw has been invoked, the merge was entered before
\* calculate_qw in this run and has written the ordered trajectory, and
\* the cutoff handed to get_qw is defined; once validation has accepted
\* the flags, qw implies concat, and qw implies a supplied cutoff or rdf.
C13_QwAfterMergeWithCutoff ==
  /\ Invoked("get_qw") =>
       /\ EnteredBefore("concat_all_traj_by_iteration", "calculate_qw")
       /\ ordered # None
       /\ args.qw_cut # None
       /\ \A c \in QwCalls : calls[c].argv[2] # None
  /\ (Entered("Config") /\ exit_at # "_validate_flags" /\ args.qw) =>
       /\ args.concat
       /\ args.qw_cut # None \/ args.rdf

\* C13 witness: get_qw has run with a cutoff that calculate_rdf derived,
\* in a run given --qw alone among the stage flags.
C13_Witness ==
  /\ Invoked("get_qw")
  /\ Entered("calculate_rdf")
  /\ args.qw_cut \notin {None, Some(2)}
  /\ EnteredBefore("concat_all_traj_by_iteration", "calculate_rdf")

====
